---------------------------- MODULE Spec2Model ----------------------------
(***************************************************************************)
(* Model of bitcoinlib's Value class (src/bitcoinlib/values.py).           *)
(*                                                                         *)
(* Numbers.  The code keeps amounts and denominators as Python floats.     *)
(* Every literal the code and the tables use is a decimal, so a number is  *)
(* modelled as an exact decimal  m * 10^e  (a record [m, e], normalised so *)
(* that m does not end in 0).  Binary rounding error of the float type is  *)
(* therefore not part of these definitions; it is modelled separately, on  *)
(* 53-bit significands, for the smallest-unit round trip (section          *)
(* "binary64").                                                            *)
(*                                                                         *)
(* Strings are sequences of one-character strings, so that split(),        *)
(* slicing (cur_code[:len(symb)]) and upper() are computed as the code     *)
(* computes them.  The character "u" stands for the micro sign.            *)
(***************************************************************************)
EXTENDS Integers, Sequences, FiniteSets, TLC

VARIABLES heap, call, ret

vars == <<heap, call, ret>>

---------------------------------------------------------------------------
(* Bounds of the model *)

\* Values alive at once (objects the program has constructed).
MaxValues == 3
\* Decimal digits a mantissa may take; an operation whose exact result
\* needs more is outside the model (its action is not enabled).
MaxDigits == 8
\* Smallest-unit counts given to from_satoshi are 0..MaxSat.
MaxSat == 12

---------------------------------------------------------------------------
(* Exact decimals *)

RECURSIVE Pow10(_)
Pow10(k) == IF k <= 0 THEN 1 ELSE 10 * Pow10(k - 1)

RECURSIVE Norm(_, _)
Norm(m, e) ==
    IF m = 0 THEN [m |-> 0, e |-> 0]
    ELSE IF m % 10 = 0 THEN Norm(m \div 10, e + 1)
    ELSE [m |-> m, e |-> e]

Dec(m, e) == Norm(m, e)
Int2Dec(n) == Norm(n, 0)
Zero == [m |-> 0, e |-> 0]
One == [m |-> 1, e |-> 0]

Abs(n) == IF n < 0 THEN -n ELSE n
Sgn(n) == IF n < 0 THEN -1 ELSE IF n = 0 THEN 0 ELSE 1
Min(a, b) == IF a <= b THEN a ELSE b
Max(a, b) == IF a >= b THEN a ELSE b

RECURSIVE NumDigits(_)
NumDigits(n) == IF Abs(n) < 10 THEN 1 ELSE 1 + NumDigits(Abs(n) \div 10)

\* Position of the leading digit: |a| is in [10^(Top-1), 10^Top).
Top(a) == NumDigits(a.m) + a.e

DecNeg(a) == [m |-> -a.m, e |-> a.e]

\* a and b can be brought to a common exponent within MaxDigits digits.
Alignable(a, b) ==
    \/ a.m = 0
    \/ b.m = 0
    \/ Max(Top(a), Top(b)) - Min(a.e, b.e) <= MaxDigits

DecAdd(a, b) ==
    IF a.m = 0 THEN b
    ELSE IF b.m = 0 THEN a
    ELSE LET e == Min(a.e, b.e)
         IN  Norm(a.m * Pow10(a.e - e) + b.m * Pow10(b.e - e), e)

DecSub(a, b) == DecAdd(a, DecNeg(b))

Multipliable(a, b) == NumDigits(a.m) + NumDigits(b.m) <= MaxDigits

DecMul(a, b) == Norm(a.m * b.m, a.e + b.e)

\* a < b, decided on leading-digit positions first so that no alignment of
\* distant exponents is needed.
PosLt(a, b) ==
    IF Top(a) # Top(b) THEN Top(a) < Top(b)
    ELSE LET e == Min(a.e, b.e)
         IN  a.m * Pow10(a.e - e) < b.m * Pow10(b.e - e)

DecLt(a, b) ==
    CASE Sgn(a.m) # Sgn(b.m) -> Sgn(a.m) < Sgn(b.m)
      [] a.m = 0             -> FALSE
      [] a.m > 0             -> PosLt(a, b)
      [] OTHER               -> PosLt(DecNeg(b), DecNeg(a))

DecLe(a, b) == a = b \/ DecLt(a, b)

\* The exact quotient a / b is a finite decimal within the digit budget:
\* k is the number of extra decimal places it needs.
QuotPlaces(a, b) ==
    {k \in 0..MaxDigits :
        /\ NumDigits(a.m) + k <= MaxDigits
        /\ (Abs(a.m) * Pow10(k)) % Abs(b.m) = 0}

Divisible(a, b) == b.m # 0 /\ QuotPlaces(a, b) # {}

DecDiv(a, b) ==
    LET k == CHOOSE k \in QuotPlaces(a, b) : \A j \in QuotPlaces(a, b) : k <= j
    IN  Norm(Sgn(b.m) * ((a.m * Pow10(k)) \div Abs(b.m)), a.e - k - b.e)

\* Python's round(x, n) on an exact decimal: n decimals, ties to even.
RoundDec(a, n) ==
    IF a.e >= -n THEN a
    ELSE LET d == (-n) - a.e
         IN  IF d > 9 THEN Zero
             ELSE LET p == Pow10(d)
                      q == a.m \div p
                      r == a.m % p
                      up == 2 * r > p \/ (2 * r = p /\ q % 2 = 1)
                  IN  Norm(IF up THEN q + 1 ELSE q, -n)

\* Python's float floor division x // y, for y # 0.
FloorQuotable(a, b) ==
    b.m # 0 /\ (a.m = 0 \/ (Abs(a.e - b.e) <= MaxDigits
                 /\ Max(NumDigits(a.m), NumDigits(b.m)) + Abs(a.e - b.e) <= MaxDigits))

DecFloorDiv(a, b) ==
    LET s == Sgn(b.m)
        num == s * a.m
        den == Abs(b.m)
    IN  IF a.e >= b.e THEN Int2Dec((num * Pow10(a.e - b.e)) \div den)
        ELSE Int2Dec(num \div (den * Pow10(b.e - a.e)))

\* The integer a decimal with no fractional part stands for.
IsSmallInt(a) == a.m = 0 \/ (a.e >= 0 /\ Top(a) <= MaxDigits)
DecToInt(a) == a.m * Pow10(a.e)

---------------------------------------------------------------------------
(* Strings *)

Lower == <<"a", "b", "c", "d", "e", "f", "g", "h", "i", "j", "k", "l", "m",
           "n", "o", "p", "q", "r", "s", "t", "v", "w", "x", "y", "z">>
Capital == <<"A", "B", "C", "D", "E", "F", "G", "H", "I", "J", "K", "L", "M",
             "N", "O", "P", "Q", "R", "S", "T", "V", "W", "X", "Y", "Z">>

\* str.upper(), one character at a time.
UpperChar(c) ==
    IF \E i \in DOMAIN Lower : Lower[i] = c
    THEN Capital[CHOOSE i \in DOMAIN Lower : Lower[i] = c]
    ELSE c

Upper(s) == [i \in DOMAIN s |-> UpperChar(s[i])]

\* s[:len(p)] == p
StartsWith(s, p) == Len(p) <= Len(s) /\ SubSeq(s, 1, Len(p)) = p

\* s[n:]
Drop(s, n) == SubSeq(s, n + 1, Len(s))

\* p in s (substring test)
Contains(s, p) ==
    \E i \in 0..(Len(s) - Len(p)) : SubSeq(s, i + 1, i + Len(p)) = p

\* str.split(): the maximal runs of non-blank characters.
RECURSIVE SplitFrom(_, _)
SplitFrom(s, cur) ==
    IF s = <<>> THEN (IF cur = <<>> THEN <<>> ELSE <<cur>>)
    ELSE IF Head(s) = " "
         THEN (IF cur = <<>> THEN <<>> ELSE <<cur>>) \o SplitFrom(Tail(s), <<>>)
         ELSE SplitFrom(Tail(s), Append(cur, Head(s)))

Split(s) == SplitFrom(s, <<>>)

DigitChars == <<"0", "1", "2", "3", "4", "5", "6", "7", "8", "9">>
IsDigit(c) == \E i \in DOMAIN DigitChars : DigitChars[i] = c
DigitVal(c) == (CHOOSE i \in DOMAIN DigitChars : DigitChars[i] = c) - 1
DigitChar(d) == DigitChars[d + 1]

RECURSIVE StripLeft(_)
StripLeft(ds) == IF ds # <<>> /\ Head(ds) = "0" THEN StripLeft(Tail(ds)) ELSE ds

RECURSIVE StripRight(_)
StripRight(ds) ==
    IF ds # <<>> /\ ds[Len(ds)] = "0" THEN StripRight(SubSeq(ds, 1, Len(ds) - 1)) ELSE ds

RECURSIVE DigitsVal(_)
DigitsVal(ds) ==
    IF ds = <<>> THEN 0
    ELSE 10 * DigitsVal(SubSeq(ds, 1, Len(ds) - 1)) + DigitVal(ds[Len(ds)])

\* float(<str>) for plain decimal literals: [sign] digits [. digits].  Any
\* other text is a ValueError (ok = FALSE).  Exponents, inf and nan, which
\* float() also reads, are not among the model's inputs.
ParseFloat(s) ==
    LET signed == s # <<>> /\ Head(s) \in {"-", "+"}
        body == IF signed THEN Tail(s) ELSE s
        dots == {i \in DOMAIN body : body[i] = "."}
        dot == IF dots = {} THEN Len(body) + 1 ELSE CHOOSE i \in dots : TRUE
        ip == SubSeq(body, 1, dot - 1)
        fp == SubSeq(body, dot + 1, Len(body))
        all == ip \o fp
        wellformed == /\ Cardinality(dots) <= 1
                      /\ all # <<>>
                      /\ \A i \in DOMAIN all : IsDigit(all[i])
        sig == StripRight(all)
        mant == StripLeft(sig)
        n == Norm(DigitsVal(mant), (Len(all) - Len(sig)) - Len(fp))
    IN  IF ~wellformed THEN [ok |-> FALSE, n |-> Zero]
        ELSE [ok |-> TRUE, n |-> IF signed /\ Head(s) = "-" THEN DecNeg(n) ELSE n]

\* The literal is within the digit budget of the model.
ParseFits(s) ==
    LET body == IF s # <<>> /\ Head(s) \in {"-", "+"} THEN Tail(s) ELSE s
        ds == SelectSeq(body, IsDigit)
    IN  Len(StripLeft(StripRight(ds))) <= MaxDigits

RECURSIVE DigitsOf(_)
DigitsOf(n) ==
    IF n < 10 THEN <<DigitChar(n)>>
    ELSE Append(DigitsOf(n \div 10), DigitChar(n % 10))

RECURSIVE Zeros(_)
Zeros(k) == IF k <= 0 THEN <<>> ELSE <<"0">> \o Zeros(k - 1)

\* "%.<decimals>f" % x
FormatFixed(x, decimals) ==
    LET r == RoundDec(x, decimals)
        scaled == IF r.m = 0 THEN <<"0">> ELSE DigitsOf(Abs(r.m)) \o Zeros(r.e + decimals)
        padded == Zeros(decimals + 1 - Len(scaled)) \o scaled
        ip == SubSeq(padded, 1, Len(padded) - decimals)
        fp == SubSeq(padded, Len(padded) - decimals + 1, Len(padded))
    IN  (IF r.m < 0 THEN <<"-">> ELSE <<>>)
        \o ip \o (IF decimals > 0 THEN <<".">> \o fp ELSE <<>>)

---------------------------------------------------------------------------
(* The tables of bitcoinlib.config.config and bitcoinlib.networks.  Neither *)
(* file is among the sources; the entries are the ones values.py names     *)
(* (its docstrings and the exclusion list of str) and the specification    *)
(* describes, in ascending order of multiplier.                            *)

\* NETWORK_DENOMINATORS.items(): multiplier (10^exp) and symbol.
NETWORK_DENOMINATORS ==
    << [den |-> Dec(1, -9), symb |-> <<"n">>],
       [den |-> Dec(1, -8), symb |-> <<"s", "a", "t">>],
       [den |-> Dec(1, -7), symb |-> <<"f", "i", "n">>],
       [den |-> Dec(1, -6), symb |-> <<"u">>],
       [den |-> Dec(1, -3), symb |-> <<"m">>],
       [den |-> Dec(1, -2), symb |-> <<"c">>],
       [den |-> Dec(1, -1), symb |-> <<"d">>],
       [den |-> Dec(1, 0),  symb |-> <<>>],
       [den |-> Dec(1, 1),  symb |-> <<"d", "a">>],
       [den |-> Dec(1, 2),  symb |-> <<"h">>],
       [den |-> Dec(1, 3),  symb |-> <<"k">>],
       [den |-> Dec(1, 6),  symb |-> <<"M">>],
       [den |-> Dec(1, 9),  symb |-> <<"G">>] >>

DenominatorKeys == {NETWORK_DENOMINATORS[i].den : i \in DOMAIN NETWORK_DENOMINATORS}
DenominatorSymbols == {NETWORK_DENOMINATORS[i].symb : i \in DOMAIN NETWORK_DENOMINATORS}

\* NETWORK_DENOMINATORS[den], for den a key.
SymbolOf(den) ==
    NETWORK_DENOMINATORS[CHOOSE i \in DOMAIN NETWORK_DENOMINATORS :
                            NETWORK_DENOMINATORS[i].den = den].symb

\* The names of NETWORK_DEFINITIONS, in the order of the dictionary.
NetworkNames == <<"bitcoin", "litecoin", "dogecoin">>

NETWORK_DEFINITIONS ==
    [n \in {NetworkNames[i] : i \in DOMAIN NetworkNames} |->
        CASE n = "bitcoin" ->
               [currency_code |-> <<"B", "T", "C">>,
                currency_symbol |-> <<"B">>,
                currency_name_plural |-> <<"b", "i", "t", "c", "o", "i", "n", "s">>,
                denominator |-> Dec(1, -8)]
          [] n = "litecoin" ->
               [currency_code |-> <<"L", "T", "C">>,
                currency_symbol |-> <<"L">>,
                currency_name_plural |-> <<"l", "i", "t", "e", "c", "o", "i", "n", "s">>,
                denominator |-> Dec(1, -8)]
          [] n = "dogecoin" ->
               [currency_code |-> <<"D", "O", "G", "E">>,
                currency_symbol |-> <<"D">>,
                currency_name_plural |-> <<"d", "o", "g", "e", "c", "o", "i", "n", "s">>,
                denominator |-> Dec(1, -8)] ]

KnownNetworks == DOMAIN NETWORK_DEFINITIONS
DEFAULT_NETWORK == "bitcoin"

\* [n for n in NETWORK_DEFINITIONS
\*    if NETWORK_DEFINITIONS[n]['currency_code'].upper() == cur_code.upper()]
NetworksWithCode(cur_code) ==
    LET Matches(n) == Upper(NETWORK_DEFINITIONS[n].currency_code) = Upper(cur_code)
    IN  SelectSeq(NetworkNames, Matches)

\* Network objects compare by name (Network.__eq__).
NetworkNe(n1, n2) == n1 # n2

---------------------------------------------------------------------------
(* Python values that reach the class: a number, a string or PyNone.         *)

PyNum(d) == [t |-> "num", n |-> d, s |-> <<>>]
PyStr(s) == [t |-> "str", n |-> Zero, s |-> s]
PyNone == [t |-> "none", n |-> Zero, s |-> <<>>]

\* A Value object: self.value, self.denominator, self.network.
MkValue(value, denominator, network) ==
    [value |-> value, denominator |-> denominator, network |-> network]

NoValue == MkValue(Zero, Zero, "")

Ok(obj) == [ok |-> TRUE, err |-> "", obj |-> obj]
Raise(err) == [ok |-> FALSE, err |-> err, obj |-> NoValue]

\* Lines 113-116: a string denominator is looked up by exact symbol.
ResolveDenominator(denominator) ==
    IF denominator.t = "str"
    THEN LET Same(d) == d.symb = denominator.s
             dens == SelectSeq(NETWORK_DENOMINATORS, Same)
         IN  IF dens # <<>> THEN PyNum(dens[1].den) ELSE denominator
    ELSE denominator

\* Python truth value of the resolved denominator.
Truthy(x) ==
    CASE x.t = "num"  -> x.n # Zero
      [] x.t = "str"  -> x.s # <<>>
      [] OTHER        -> FALSE

\* Line 117 with an unreadable string taken as 1.0.
FloatDenominatorLenient(denominator) ==
    LET d == ResolveDenominator(denominator)
    IN  IF ~Truthy(d) THEN [ok |-> TRUE, n |-> One]
        ELSE IF d.t = "num" THEN [ok |-> TRUE, n |-> d.n]
        ELSE [ok |-> TRUE, n |-> One]

\* Line 117: float(denominator) if denominator else 1.0
FloatDenominator(denominator) ==
    LET d == ResolveDenominator(denominator)
    IN  IF ~Truthy(d) THEN [ok |-> TRUE, n |-> One]
        ELSE IF d.t = "num" THEN [ok |-> TRUE, n |-> d.n]
        ELSE ParseFloat(d.s)

\* Lines 131-142: the first table entry whose (non-empty) symbol starts
\* cur_code decides; 0 when there is none.
FirstPrefix(cur_code) ==
    LET hits == {i \in DOMAIN NETWORK_DENOMINATORS :
                    /\ Len(NETWORK_DENOMINATORS[i].symb) > 0
                    /\ StartsWith(cur_code, NETWORK_DENOMINATORS[i].symb)}
    IN  IF hits = {} THEN 0 ELSE CHOOSE i \in hits : \A j \in hits : i <= j

\* Lines 119-143: the string branch of __init__.  network and denominator
\* are the ones lines 110-117 have set.
ParseString(value, denominator, network) ==
    LET value_items == Split(value)
        cur_code0 == IF Len(value_items) > 1 THEN value_items[2]
                     ELSE NETWORK_DEFINITIONS[network].currency_code
        network_names0 == NetworksWithCode(cur_code0)
        i == FirstPrefix(cur_code0)
        cur_code == Drop(cur_code0, Len(NETWORK_DENOMINATORS[i].symb))
        network_names == NetworksWithCode(cur_code)
        number == ParseFloat(value_items[1])
        Finish(den, net) ==
            IF number.ok THEN Ok(MkValue(DecMul(number.n, den), den, net))
            ELSE Raise("ValueError: could not convert string to float")
    IN  IF value_items = <<>> THEN Raise("IndexError")
        ELSE IF network_names0 # <<>> THEN Finish(denominator, network_names0[1])
        ELSE IF i = 0 THEN Finish(denominator, network)
        ELSE IF network_names # <<>> THEN Finish(NETWORK_DENOMINATORS[i].den, network_names[1])
        ELSE IF Len(cur_code) > 0 THEN Raise("ValueError: Currency symbol not recognised")
        ELSE Finish(NETWORK_DENOMINATORS[i].den, network)

\* Value.__init__(value, denominator, network).  value and denominator are
\* Python values (PyNum, PyStr, PyNone); network is a network name.
ValueInit(value, denominator, network) ==
    LET den == FloatDenominator(denominator)
    IN  IF network \notin KnownNetworks THEN Raise("NetworkNotFound")
        ELSE IF ~den.ok THEN Raise("ValueError: could not convert string to float")
        ELSE IF value.t = "str" THEN ParseString(value.s, den.n, network)
        ELSE IF value.t = "none" THEN Raise("TypeError")
        ELSE Ok(MkValue(DecMul(value.n, den.n), den.n, network))

\* Value.from_satoshi(value, network): cls(value or 0, network.denominator, network)
from_satoshi(value, network) ==
    IF network \notin KnownNetworks THEN Raise("NetworkNotFound")
    ELSE ValueInit(IF Truthy(value) THEN value ELSE PyNum(Zero),
                   PyNum(NETWORK_DEFINITIONS[network].denominator), network)

---------------------------------------------------------------------------
(* What a method hands back: a new Value, a bool, an int, a str, bytes, or *)
(* an exception.                                                           *)

RetNone == [kind |-> "none", err |-> "", obj |-> NoValue, ref |-> 0, b |-> FALSE,
            n |-> 0, s |-> <<>>, bytes |-> <<>>]
RetValue(v) == [RetNone EXCEPT !.kind = "value", !.obj = v]
RetBool(b) == [RetNone EXCEPT !.kind = "bool", !.b = b]
RetInt(n) == [RetNone EXCEPT !.kind = "int", !.n = n]
RetStr(s) == [RetNone EXCEPT !.kind = "str", !.s = s]
RetBytes(bs) == [RetNone EXCEPT !.kind = "bytes", !.bytes = bs]
RetError(err) == [RetNone EXCEPT !.kind = "error", !.err = err]

OfInit(r) == IF r.ok THEN RetValue(r.obj) ELSE RetError(r.err)

\* Value(x, self.denominator, self.network), as every operator ends.
NewLike(self, x) == OfInit(ValueInit(PyNum(x), PyNum(self.denominator), self.network))

CompareError == "ValueError: Cannot compare values from different networks"
CalculateError == "ValueError: Cannot calculate with values from different networks"

\* The other operand of an operator: a Value or a number.
ObjArg(v) == [t |-> "obj", v |-> v, n |-> Zero]
NumArg(n) == [t |-> "num", v |-> NoValue, n |-> n]

__lt__(self, other) ==
    IF NetworkNe(self.network, other.network) THEN RetError(CompareError)
    ELSE RetBool(DecLt(self.value, other.value))

__le__(self, other) ==
    IF NetworkNe(self.network, other.network) THEN RetError(CompareError)
    ELSE RetBool(DecLe(self.value, other.value))

__eq__Lenient(self, other) == RetBool(self.network = other.network /\ self.value = other.value)

__eq__(self, other) ==
    IF NetworkNe(self.network, other.network) THEN RetError(CompareError)
    ELSE RetBool(self.value = other.value)

__ne__(self, other) ==
    IF NetworkNe(self.network, other.network) THEN RetError(CompareError)
    ELSE RetBool(self.value # other.value)

__ge__(self, other) ==
    IF NetworkNe(self.network, other.network) THEN RetError(CompareError)
    ELSE RetBool(DecLe(other.value, self.value))

__gt__(self, other) ==
    IF NetworkNe(self.network, other.network) THEN RetError(CompareError)
    ELSE RetBool(DecLt(other.value, self.value))

\* other = other.value, after the network check (lines 273-276).
Scalar(other) == IF other.t = "obj" THEN other.v.value ELSE other.n

Mismatch(self, other) == other.t = "obj" /\ NetworkNe(self.network, other.v.network)

__add__(self, other) ==
    IF Mismatch(self, other) THEN RetError(CalculateError)
    ELSE NewLike(self, DecAdd(self.value, Scalar(other)))

__iadd__(self, other) ==
    IF Mismatch(self, other) THEN RetError(CalculateError)
    ELSE NewLike(self, DecAdd(self.value, Scalar(other)))

__isub__(self, other) ==
    IF Mismatch(self, other) THEN RetError(CalculateError)
    ELSE NewLike(self, DecSub(self.value, Scalar(other)))

__sub__(self, other) ==
    IF Mismatch(self, other) THEN RetError(CalculateError)
    ELSE NewLike(self, DecSub(self.value, Scalar(other)))

__mul__(self, other) == NewLike(self, DecMul(self.value, other))

__truediv__(self, other) ==
    IF other = Zero THEN RetError("ZeroDivisionError")
    ELSE NewLike(self, DecDiv(self.value, other))

__floordiv__(self, other) ==
    IF self.denominator = Zero \/ other = Zero THEN RetError("ZeroDivisionError")
    ELSE NewLike(self, DecMul(DecFloorDiv(DecDiv(self.value, self.denominator), other),
                              self.denominator))

__round__(self, n) ==
    IF self.denominator = Zero THEN RetError("ZeroDivisionError")
    ELSE NewLike(self, DecMul(RoundDec(DecDiv(self.value, self.denominator), n),
                              self.denominator))

\* The property value_sat: round(self.value / self.network.denominator)
value_sat(self) ==
    DecToInt(RoundDec(DecDiv(self.value, NETWORK_DEFINITIONS[self.network].denominator), 0))

---------------------------------------------------------------------------
(* Value.str *)

Auto == <<"a", "u", "t", "o">>
Sat == <<"s", "a", "t">>

\* Line 196: the symbols the automatic choice passes over.
AutoExcluded == {<<"n">>, <<"f", "i", "n">>, <<"d", "a">>, <<"c">>, <<"d">>, <<"h">>}

\* 1 <= x / den < 1000
InRange(x, den) ==
    LET q == DecDiv(x, den)
    IN  DecLe(One, q) /\ DecLt(q, Dec(1, 3))

\* Lines 188-199 with value * den for value / den in the scan.
AutoDenominatorTimes(self) ==
    IF DecLe(Dec(1, -3), self.value) /\ DecLt(self.value, Dec(1, 3))
    THEN PyNum(One)
    ELSE IF InRange(self.value, NETWORK_DEFINITIONS[self.network].denominator)
    THEN PyNum(NETWORK_DEFINITIONS[self.network].denominator)
    ELSE LET hits == {i \in DOMAIN NETWORK_DENOMINATORS :
                        /\ NETWORK_DENOMINATORS[i].symb \notin AutoExcluded
                        /\ InRange(self.value, DecDiv(One, NETWORK_DENOMINATORS[i].den))}
         IN  IF hits = {} THEN PyStr(Auto)
             ELSE PyNum(NETWORK_DENOMINATORS[CHOOSE i \in hits : \A j \in hits : j <= i].den)

\* Lines 188-199: denominator == 'auto'.  In the scan every entry in range
\* assigns, so the last one in table order stays; when none is in range the
\* variable keeps the string 'auto'.
AutoDenominator(self) ==
    IF DecLe(Dec(1, -3), self.value) /\ DecLt(self.value, Dec(1, 3))
    THEN PyNum(One)
    ELSE IF InRange(self.value, NETWORK_DEFINITIONS[self.network].denominator)
    THEN PyNum(NETWORK_DEFINITIONS[self.network].denominator)
    ELSE LET hits == {i \in DOMAIN NETWORK_DENOMINATORS :
                        /\ NETWORK_DENOMINATORS[i].symb \notin AutoExcluded
                        /\ InRange(self.value, NETWORK_DENOMINATORS[i].den)}
         IN  IF hits = {} THEN PyStr(Auto)
             ELSE PyNum(NETWORK_DENOMINATORS[CHOOSE i \in hits : \A j \in hits : j <= i].den)

\* Lines 200-205: a symbol given as a string.
SymbolDenominator(denominator) ==
    LET Starts(d) == Len(d.symb) > 0 /\ StartsWith(denominator, d.symb)
        Same(d) == d.symb = denominator
        dens0 == SelectSeq(NETWORK_DENOMINATORS, Starts)
        dens == IF Len(dens0) > 1 THEN SelectSeq(NETWORK_DENOMINATORS, Same) ELSE dens0
    IN  IF dens # <<>> THEN PyNum(dens[1].den) ELSE PyStr(denominator)

\* Lines 186-205: the denominator str works with.
StrDenominator(self, denominator) ==
    CASE denominator.t = "none"                        -> PyNum(self.denominator)
      [] denominator.t = "str" /\ denominator.s = Auto -> AutoDenominator(self)
      [] denominator.t = "str"                         -> SymbolDenominator(denominator.s)
      [] OTHER                                         -> denominator

\* Lines 211-216.  log10 of a ratio of two powers of ten is the difference
\* of the exponents.
StrDecimals(self, den, decimals) ==
    LET d0 == IF decimals.t = "none"
              THEN Min(8, -(NETWORK_DEFINITIONS[self.network].denominator.e - den.e))
              ELSE DecToInt(decimals.n)
    IN  Max(0, d0)

\* Lines 218-224.
StrCurrency(self, den_symb, currency_repr) ==
    LET net == NETWORK_DEFINITIONS[self.network]
        c0 == net.currency_code
        c1 == IF currency_repr = "symbol" THEN net.currency_symbol ELSE c0
        c2 == IF currency_repr = "name" THEN net.currency_name_plural ELSE c1
    IN  IF Contains(den_symb, Sat) /\ self.network = "bitcoin" THEN <<>> ELSE c2

\* Value.str(denominator, decimals, currency_repr)
str(self, denominator, decimals, currency_repr) ==
    LET d == StrDenominator(self, denominator)
    IN  IF ~(d.t = "num" /\ d.n \in DenominatorKeys)
        THEN RetError("ValueError: Denominator not found in NETWORK_DENOMINATORS definition")
        ELSE LET den_symb == SymbolOf(d.n)
                 dec == StrDecimals(self, d.n, decimals)
                 balance == RoundDec(DecDiv(self.value, d.n), dec)
             IN  RetStr(FormatFixed(balance, dec) \o <<" ">> \o den_symb
                        \o StrCurrency(self, den_symb, currency_repr))

str1(self, decimals, currency_repr) == str(self, PyNum(One), decimals, currency_repr)

str_auto(self, decimals, currency_repr) == str(self, PyStr(Auto), decimals, currency_repr)

---------------------------------------------------------------------------
(* Value.to_bytes, Value.to_hex *)

\* int.to_bytes(length, 'little'), with what does not fit left over.
RECURSIVE LittleEndian(_, _)
LittleEndian(n, length) ==
    IF length <= 0 THEN <<>> ELSE <<n % 256>> \o LittleEndian(n \div 256, length - 1)

RECURSIVE Overflow(_, _)
Overflow(n, length) == IF length <= 0 THEN n ELSE Overflow(n \div 256, length - 1)

Reverse(q) == [i \in DOMAIN q |-> q[Len(q) + 1 - i]]

\* int.to_bytes keeping the low bytes of an int that does not fit.
IntToBytesTruncated(n, length, byteorder) ==
    IF byteorder \notin {"little", "big"} \/ length < 0 THEN RetError("ValueError")
    ELSE IF n < 0 THEN RetError("OverflowError")
    ELSE RetBytes(IF byteorder = "little" THEN LittleEndian(n, length)
                  ELSE Reverse(LittleEndian(n, length)))

\* int.to_bytes(length, byteorder), unsigned: the byte order and the length
\* are checked first, then the int must be non-negative and fit.
IntToBytes(n, length, byteorder) ==
    IF byteorder \notin {"little", "big"} \/ length < 0 THEN RetError("ValueError")
    ELSE IF n < 0 \/ Overflow(n, length) # 0 THEN RetError("OverflowError")
    ELSE RetBytes(IF byteorder = "little" THEN LittleEndian(n, length)
                  ELSE Reverse(LittleEndian(n, length)))

to_bytes(self, length, byteorder) == IntToBytes(value_sat(self), length, byteorder)

HexChars == <<"0", "1", "2", "3", "4", "5", "6", "7", "8", "9", "a", "b", "c", "d", "e", "f">>

RECURSIVE Hex(_)
Hex(bs) ==
    IF bs = <<>> THEN <<>>
    ELSE <<HexChars[(Head(bs) \div 16) + 1], HexChars[(Head(bs) % 16) + 1]>> \o Hex(Tail(bs))

to_hex(self, length, byteorder) ==
    LET r == IntToBytes(value_sat(self), length \div 2, byteorder)
    IN  IF r.kind = "error" THEN r ELSE RetStr(Hex(r.bytes))

---------------------------------------------------------------------------
(* The program: Value objects, the call in progress and what it returned.  *)
(* heap[i] is the i-th Value constructed; a call names its receiver and    *)
(* Value operands by their place in heap.                                  *)

NoCall == [op |-> "", self |-> 0, args |-> <<>>]

PyRef(i) == [t |-> "obj", n |-> Int2Dec(i), s |-> <<>>]
PyName(x) == [t |-> "name", n |-> Zero, s |-> <<x>>]
PyInt(k) == PyNum(Int2Dec(k))

\* "return Value(...)" written as an update of the receiver.
ReturnedInPlace(h, self, v) ==
    IF self = 0 THEN [heap |-> Append(h, v), ref |-> Len(h) + 1]
    ELSE [heap |-> [h EXCEPT ![self] = v], ref |-> self]

\* "return Value(...)": the result is a new object; no object changes.
Returned(h, self, v) == [heap |-> Append(h, v), ref |-> Len(h) + 1]

\* A call of op on heap[self] (0: a constructor) ends with outcome r.  The
\* caller makes one call at a time: the next starts when it has taken the
\* outcome of the last (Resume).
Finish(op, self, args, r) ==
    /\ call' = [op |-> op, self |-> self, args |-> args]
    /\ IF r.kind = "value"
       THEN LET st == Returned(heap, self, r.obj)
            IN  heap' = st.heap /\ ret' = [r EXCEPT !.ref = st.ref]
       ELSE heap' = heap /\ ret' = r

\* The digits of the model suffice for Value(x, self.denominator, ...).
LikeFits(self, x) == Multipliable(x, self.denominator)

\* ... and for Value(value, denominator, network).
InitFits(value, denominator) ==
    LET den == FloatDenominator(denominator)
        items == Split(value.s)
    IN  /\ denominator.t = "str" => ParseFits(denominator.s)
        /\ (den.ok /\ value.t = "num") => Multipliable(value.n, den.n)
        /\ (den.ok /\ value.t = "str" /\ items # <<>>) =>
              /\ ParseFits(items[1])
              /\ Multipliable(ParseFloat(items[1]).n, den.n)

Init ==
    /\ heap = <<>>
    /\ call = NoCall
    /\ ret = RetNone

\* The caller goes on after a call: its outcome (a result, or an exception
\* it has caught) is dropped, the objects stay.
Resume ==
    /\ call # NoCall
    /\ call' = NoCall
    /\ ret' = RetNone
    /\ UNCHANGED heap

\* Value(value, denominator, network)
Construct(values, denominators, networks, room) ==
    /\ call = NoCall
    /\ \E value \in values, denominator \in denominators, network \in networks :
        /\ Len(heap) < room
        /\ InitFits(value, denominator)
        /\ Finish("Value", 0, <<value, denominator, PyName(network)>>,
                  OfInit(ValueInit(value, denominator, network)))

\* Value.from_satoshi(value, network)
FromSatoshi(values, networks, room) ==
    /\ call = NoCall
    /\ \E value \in values, network \in networks :
        /\ Len(heap) < room
        /\ Finish("from_satoshi", 0, <<value, PyName(network)>>,
                  OfInit(from_satoshi(value, network)))

\* self < other, self <= other, ...
Compare ==
    /\ call = NoCall
    /\ \E self \in DOMAIN heap, other \in DOMAIN heap :
        \/ Finish("__lt__", self, <<PyRef(other)>>, __lt__(heap[self], heap[other]))
        \/ Finish("__le__", self, <<PyRef(other)>>, __le__(heap[self], heap[other]))
        \/ Finish("__eq__", self, <<PyRef(other)>>, __eq__(heap[self], heap[other]))
        \/ Finish("__ne__", self, <<PyRef(other)>>, __ne__(heap[self], heap[other]))
        \/ Finish("__ge__", self, <<PyRef(other)>>, __ge__(heap[self], heap[other]))
        \/ Finish("__gt__", self, <<PyRef(other)>>, __gt__(heap[self], heap[other]))

\* self + other, self += other, self -= other, self - other with a Value
AddSubValue ==
    /\ call = NoCall
    /\ \E self \in DOMAIN heap, other \in DOMAIN heap :
        /\ Len(heap) < MaxValues
        /\ Alignable(heap[self].value, heap[other].value)
        /\ LikeFits(heap[self], DecAdd(heap[self].value, heap[other].value))
        /\ LikeFits(heap[self], DecSub(heap[self].value, heap[other].value))
        /\ LET o == ObjArg(heap[other])
           IN  \/ Finish("__add__", self, <<PyRef(other)>>, __add__(heap[self], o))
               \/ Finish("__iadd__", self, <<PyRef(other)>>, __iadd__(heap[self], o))
               \/ Finish("__isub__", self, <<PyRef(other)>>, __isub__(heap[self], o))
               \/ Finish("__sub__", self, <<PyRef(other)>>, __sub__(heap[self], o))

\* ... and with a number
AddSubScalar(scalars) ==
    /\ call = NoCall
    /\ \E self \in DOMAIN heap, other \in scalars :
        /\ Len(heap) < MaxValues
        /\ Alignable(heap[self].value, other)
        /\ LikeFits(heap[self], DecAdd(heap[self].value, other))
        /\ LikeFits(heap[self], DecSub(heap[self].value, other))
        /\ LET o == NumArg(other)
           IN  \/ Finish("__add__", self, <<PyNum(other)>>, __add__(heap[self], o))
               \/ Finish("__iadd__", self, <<PyNum(other)>>, __iadd__(heap[self], o))
               \/ Finish("__isub__", self, <<PyNum(other)>>, __isub__(heap[self], o))
               \/ Finish("__sub__", self, <<PyNum(other)>>, __sub__(heap[self], o))

\* self * other
Mul(scalars) ==
    /\ call = NoCall
    /\ \E self \in DOMAIN heap, other \in scalars :
        /\ Len(heap) < MaxValues
        /\ Multipliable(heap[self].value, other)
        /\ LikeFits(heap[self], DecMul(heap[self].value, other))
        /\ Finish("__mul__", self, <<PyNum(other)>>, __mul__(heap[self], other))

\* self / other
TrueDiv(scalars) ==
    /\ call = NoCall
    /\ \E self \in DOMAIN heap, other \in scalars :
        /\ Len(heap) < MaxValues
        /\ other # Zero =>
              /\ Divisible(heap[self].value, other)
              /\ LikeFits(heap[self], DecDiv(heap[self].value, other))
        /\ Finish("__truediv__", self, <<PyNum(other)>>, __truediv__(heap[self], other))

\* The digits of the model suffice for self.value / self.denominator.
UnitsFit(self) == self.denominator # Zero => Divisible(self.value, self.denominator)

\* self // other
FloorDiv(scalars) ==
    /\ call = NoCall
    /\ \E self \in DOMAIN heap, other \in scalars :
        /\ Len(heap) < MaxValues
        /\ UnitsFit(heap[self])
        /\ (heap[self].denominator # Zero /\ other # Zero) =>
              /\ FloorQuotable(DecDiv(heap[self].value, heap[self].denominator), other)
              /\ LikeFits(heap[self],
                          DecFloorDiv(DecDiv(heap[self].value, heap[self].denominator), other))
        /\ Finish("__floordiv__", self, <<PyNum(other)>>, __floordiv__(heap[self], other))

\* round(self, n)
Round(places) ==
    /\ call = NoCall
    /\ \E self \in DOMAIN heap, n \in places :
        /\ Len(heap) < MaxValues
        /\ UnitsFit(heap[self])
        /\ Finish("__round__", self, <<PyInt(n)>>, __round__(heap[self], n))

\* self.str(denominator, decimals, currency_repr)
StrCall(denominators, places, reprs) ==
    /\ call = NoCall
    /\ \E self \in DOMAIN heap, denominator \in denominators, decimals \in places,
       currency_repr \in reprs :
        Finish("str", self, <<denominator, decimals, PyName(currency_repr)>>,
               str(heap[self], denominator, decimals, currency_repr))

\* self.str1(decimals, currency_repr), self.str_auto(decimals, currency_repr)
Str1Auto(places, reprs) ==
    /\ call = NoCall
    /\ \E self \in DOMAIN heap, decimals \in places, currency_repr \in reprs :
        \/ Finish("str1", self, <<decimals, PyName(currency_repr)>>,
                  str1(heap[self], decimals, currency_repr))
        \/ Finish("str_auto", self, <<decimals, PyName(currency_repr)>>,
                  str_auto(heap[self], decimals, currency_repr))

\* The digits of the model suffice for value_sat.
SatFits(self) ==
    IsSmallInt(RoundDec(DecDiv(self.value, NETWORK_DEFINITIONS[self.network].denominator), 0))

\* self.value_sat
ValueSat ==
    /\ call = NoCall
    /\ \E self \in DOMAIN heap :
        /\ SatFits(heap[self])
        /\ Finish("value_sat", self, <<>>, RetInt(value_sat(heap[self])))

\* self.to_bytes(length, byteorder), self.to_hex(length, byteorder)
Encode(lengths, byteorders) ==
    /\ call = NoCall
    /\ \E self \in DOMAIN heap, length \in lengths, byteorder \in byteorders :
        /\ SatFits(heap[self])
        /\ \/ Finish("to_bytes", self, <<PyInt(length), PyName(byteorder)>>,
                     to_bytes(heap[self], length, byteorder))
           \/ Finish("to_hex", self, <<PyInt(2 * length), PyName(byteorder)>>,
                     to_hex(heap[self], 2 * length, byteorder))

---------------------------------------------------------------------------
(* Spec: a program that constructs a few Values and applies every operator *)

SomeNetworks == {"bitcoin", "litecoin"}
SomeValues == {PyNum(Dec(25, -1))}
SomeDenominators == {PyStr(<<"m">>)}
SomeSatoshi == {PyInt(1)}
SomeScalars == {Dec(2, 0)}
SomeDivisors == {Zero, Dec(2, 0)}
SomePlaces == {0}
SomeStrDenominators == {PyNone, PyStr(<<"k">>), PyNum(Dec(3, 0))}
SomeDecimals == {PyNone}
OtherDecimals == {PyInt(1)}
SomeReprs == {"code", "symbol"}
OtherReprs == {"name"}
SomeLengths == {1}
ByteOrders == {"little", "big"}

Next ==
    \/ Construct(SomeValues, SomeDenominators, {DEFAULT_NETWORK}, MaxValues)
    \/ FromSatoshi(SomeSatoshi, SomeNetworks, MaxValues)
    \/ Compare
    \/ AddSubValue
    \/ AddSubScalar(SomeScalars)
    \/ Mul(SomeScalars)
    \/ TrueDiv(SomeDivisors)
    \/ FloorDiv(SomeScalars)
    \/ Round(SomePlaces)
    \/ StrCall(SomeStrDenominators, SomeDecimals, SomeReprs)
    \/ Str1Auto(OtherDecimals, OtherReprs)
    \/ ValueSat
    \/ Encode(SomeLengths, ByteOrders)
    \/ Resume

Spec == Init /\ [][Next]_vars

---------------------------------------------------------------------------
(* SpecConstruct: one Value is constructed, from each kind of argument;   *)
(* it is rendered, the rendering is parsed again, and its smallest-unit    *)
(* count is read.                                                          *)

\* Value(self.str()): the rendering just returned goes to the constructor,
\* with the constructor's default denominator and network.
Reparse ==
    /\ call.op = "str"
    /\ ret.kind = "str"
    /\ Len(heap) < 2
    /\ InitFits(PyStr(ret.s), PyNum(One))
    /\ Finish("Value", 0, <<PyStr(ret.s), PyNum(One), PyName(DEFAULT_NETWORK)>>,
              OfInit(ValueInit(PyStr(ret.s), PyNum(One), DEFAULT_NETWORK)))

CurrencyCodes == {NETWORK_DEFINITIONS[n].currency_code : n \in KnownNetworks}

\* Trailing tokens of the strings given to the constructor: every symbol
\* followed by every currency code, the codes and the symbols alone, codes in
\* lower case, and tokens that are none of these.
Tokens ==
    {symb \o code : symb \in DenominatorSymbols, code \in CurrencyCodes}
    \cup (DenominatorSymbols \ {<<>>})
    \cup {<<"b", "t", "c">>, <<"d", "o", "g", "e">>, <<"m", "l", "t", "c">>,
          <<"X", "Y", "Z">>, <<"m", "X", "Y", "Z">>, <<"B", "T", "C", "x">>,
          <<"s", "a", "t", "o", "s", "h", "i">>, <<"E", "U", "R">>}

NumberTokens == {<<"1", "0">>, <<"1", ".", "5">>}

StringValues ==
    {PyStr(x \o <<" ">> \o tok) : x \in NumberTokens, tok \in Tokens}
    \cup {PyStr(x) : x \in NumberTokens}
    \cup {PyStr(<<>>), PyStr(<<"t", "e", "n", " ", "B", "T", "C">>)}

NumericValues == {PyNum(Zero), PyNum(Dec(3, 0)), PyNum(Dec(25, -1)), PyNum(Dec(-12, 0))}

NumericDenominators ==
    {PyNum(d) : d \in DenominatorKeys} \cup {PyNum(Zero), PyNum(Dec(7, 0)), PyNum(Dec(5, -1)), PyNone}

StringDenominators ==
    {PyStr(symb) : symb \in DenominatorSymbols}
    \cup {PyStr(<<"x">>), PyStr(<<"m", "m">>), PyStr(<<"B", "T", "C">>), PyStr(<<"S", "A", "T">>),
          PyStr(<<"0", ".", "5">>), PyStr(<<"1", "0">>), PyStr(<<"0">>), PyStr(<<"7">>)}

SatoshiValues == {PyNone} \cup {PyInt(n) : n \in 0..MaxSat}

AnyNetworks == KnownNetworks \cup {"nocoin"}

NextConstruct ==
    \/ Construct(StringValues, {PyNum(One)}, KnownNetworks, 1)
    \/ Construct(NumericValues, NumericDenominators \cup StringDenominators, AnyNetworks, 1)
    \/ FromSatoshi(SatoshiValues, AnyNetworks, 1)
    \/ StrCall({PyNone}, {PyNone}, {"code"})
    \/ Reparse
    \/ ValueSat
    \/ Resume

SpecConstruct == Init /\ [][NextConstruct]_vars

---------------------------------------------------------------------------
(* SpecAuto: two amounts, of any magnitude, rendered with str('auto')      *)

\* Amounts are m * 10^e for e in -ExpRange..ExpRange.
ExpRange == 13

AutoValues == {PyNum(Dec(m, e)) : m \in {1, 999}, e \in (-ExpRange)..ExpRange}

OtherValues == {PyNum(Zero), PyNum(Dec(-1, 0)), PyNum(Dec(1, 4))}

NextAuto ==
    \/ Construct(AutoValues, {PyNum(One)}, {DEFAULT_NETWORK}, 2)
    \/ Construct(OtherValues, {PyNum(One)}, {"litecoin"}, 2)
    \/ Str1Auto({PyNone}, {"code"})
    \/ Resume

SpecAuto == Init /\ [][NextAuto]_vars

---------------------------------------------------------------------------
(* binary64: the float arithmetic of from_satoshi and value_sat            *)

\* A natural number of any size is the sequence of its digits in base
\* Base, least significant first, without leading zeros (<<>> is 0).
Base == 2^15

\* Number of bits of a natural of the checker.
NumBits(n) == Cardinality({k \in 0..30 : 2^k <= n})

LimbBits == NumBits(Base - 1)

BTrim(a) ==
    IF \A i \in DOMAIN a : a[i] = 0 THEN <<>>
    ELSE SubSeq(a, 1, CHOOSE i \in DOMAIN a :
                          a[i] # 0 /\ \A j \in (i + 1)..Len(a) : a[j] = 0)

BDigit(a, i) == IF i >= 1 /\ i <= Len(a) THEN a[i] ELSE 0

\* a + b: digit i takes a carry when some lower digit makes one and every
\* digit between passes it on.
BAdd(a, b) ==
    LET Carry(i) == \E j \in 1..(i - 1) :
                        /\ BDigit(a, j) + BDigit(b, j) >= Base
                        /\ \A k \in (j + 1)..(i - 1) : BDigit(a, k) + BDigit(b, k) = Base - 1
    IN  BTrim([i \in 1..(Max(Len(a), Len(b)) + 1) |->
                  (BDigit(a, i) + BDigit(b, i) + (IF Carry(i) THEN 1 ELSE 0)) % Base])

\* a - b, for a >= b: the same with borrows.
BSub(a, b) ==
    LET Borrow(i) == \E j \in 1..(i - 1) :
                         /\ BDigit(a, j) < BDigit(b, j)
                         /\ \A k \in (j + 1)..(i - 1) : BDigit(a, k) = BDigit(b, k)
    IN  BTrim([i \in 1..Len(a) |->
                  (BDigit(a, i) - BDigit(b, i) - (IF Borrow(i) THEN 1 ELSE 0) + Base) % Base])

BLt(a, b) ==
    IF Len(a) # Len(b) THEN Len(a) < Len(b)
    ELSE \E i \in DOMAIN a : a[i] < b[i] /\ \A j \in (i + 1)..Len(a) : a[j] = b[j]

\* a * k, for 0 <= k <= Base: the low halves of the digit products plus
\* their high halves one place up.
BMulSmall(a, k) ==
    BAdd(BTrim([i \in 1..Len(a) |-> (a[i] * k) % Base]),
         BTrim([i \in 1..(Len(a) + 1) |-> IF i = 1 THEN 0 ELSE (a[i - 1] * k) \div Base]))

\* a * b, from digit j of b down: acc is a times the digits above j.
RECURSIVE BMulFrom(_, _, _, _)
BMulFrom(a, b, j, acc) ==
    IF j = 0 THEN acc
    ELSE IF acc = <<>> THEN BMulFrom(a, b, j - 1, BMulSmall(a, b[j]))
    ELSE BMulFrom(a, b, j - 1, BAdd(BMulSmall(a, b[j]), <<0>> \o acc))

BMul(a, b) == BMulFrom(a, b, Len(b), <<>>)

\* Number of bits of a; a * 2^k; a \div 2^k; a % 2^k.
BLen(a) == IF a = <<>> THEN 0 ELSE LimbBits * (Len(a) - 1) + NumBits(a[Len(a)])
BShl(a, k) ==
    IF a = <<>> THEN <<>>
    ELSE [i \in 1..(k \div LimbBits) |-> 0] \o BMulSmall(a, 2^(k % LimbBits))
BShr(a, k) ==
    LET n == k \div LimbBits
        s == k % LimbBits
    IN  BTrim([i \in 1..(Len(a) - n) |->
                  a[i + n] \div 2^s + (BDigit(a, i + n + 1) % 2^s) * 2^(LimbBits - s)])
BLow(a, k) ==
    IF k \div LimbBits >= Len(a) THEN a
    ELSE BTrim(SubSeq(a, 1, k \div LimbBits)
               \o <<a[k \div LimbBits + 1] % 2^(k % LimbBits)>>)
BOdd(a) == a # <<>> /\ Head(a) % 2 = 1

\* The digit d with d * b <= c < (d + 1) * b, for c < b * Base and b with
\* its leading digit at least Base / 2: the leading digits of c over the
\* leading digit of b give d, or up to 2 more (Knuth, 4.3.1, Theorem B).
QuotDigit(c, b) ==
    LET n == Len(b)
        guess == Min(Base - 1, (BDigit(c, n + 1) * Base + BDigit(c, n)) \div b[n])
    IN  CHOOSE d \in Max(0, guess - 2)..guess :
            /\ ~BLt(c, BMulSmall(b, d))
            /\ BLt(c, BMulSmall(b, d + 1))

\* Long division from digit i of a down: q and r are the quotient and the
\* remainder of the digits above i.
RECURSIVE BDivFrom(_, _, _, _, _)
BDivFrom(a, i, q, r, b) ==
    IF i = 0 THEN [q |-> BTrim(q), r |-> r]
    ELSE IF BLt(BTrim(<<a[i]>> \o r), b)
    THEN BDivFrom(a, i - 1, <<0>> \o q, BTrim(<<a[i]>> \o r), b)
    ELSE LET cur == BTrim(<<a[i]>> \o r)
             d == QuotDigit(cur, b)
         IN  BDivFrom(a, i - 1, <<d>> \o q, BSub(cur, BMulSmall(b, d)), b)

\* Quotient and remainder of a by b # 0: both are first scaled so that the
\* leading digit of the divisor is at least Base / 2.
BDivMod(a, b) ==
    LET s == LimbBits - NumBits(b[Len(b)])
        d == BDivFrom(BShl(a, s), Len(BShl(a, s)), <<>>, <<>>, BShl(b, s))
    IN  [q |-> d.q, r |-> BShr(d.r, s)]

\* A natural of the checker as digits, and one below Base^2 back.
BOfInt(n) == BTrim(<<n % Base, (n \div Base) % Base, n \div (Base * Base)>>)
BToInt(a) == BDigit(a, 1) + Base * BDigit(a, 2)

\* Decimal digits, read and written eight at a time.
RECURSIVE BOfDigits(_)
BOfDigits(ds) ==
    IF Len(ds) <= 8 THEN BOfInt(DigitsVal(ds))
    ELSE BAdd(BMul(BOfDigits(SubSeq(ds, 1, Len(ds) - 8)), BOfInt(Pow10(8))),
              BOfInt(DigitsVal(SubSeq(ds, Len(ds) - 7, Len(ds)))))

RECURSIVE DigitsOfB(_)
DigitsOfB(a) ==
    IF Len(a) <= 2 THEN DigitsOf(BToInt(a))
    ELSE LET hi == BDivMod(a, BOfInt(Pow10(8))).q
             lo == DigitsOf(BToInt(BDivMod(a, BOfInt(Pow10(8))).r))
         IN  DigitsOfB(hi) \o Zeros(8 - Len(lo)) \o lo

\* A Python int: sign and magnitude.  Ints wider than the checker's
\* integers are written as their decimal digits.
MkInt(neg, man) == [neg |-> neg /\ man # <<>>, man |-> man]
IntOf(ds) ==
    IF ds # <<>> /\ Head(ds) = "-" THEN MkInt(TRUE, BOfDigits(Tail(ds)))
    ELSE MkInt(FALSE, BOfDigits(ds))
ShowInt(k) ==
    IF k.man = <<>> THEN <<"0">>
    ELSE (IF k.neg THEN <<"-">> ELSE <<>>) \o DigitsOfB(k.man)

\* Significand bits of a Python float (IEEE 754 binary64).
Precision == 53

\* A finite float is (-1)^neg * man * 2^exp with man of exactly Precision
\* bits, or zero.  The exponents met here are far from the overflow and
\* subnormal ranges.
FZero == [neg |-> FALSE, man |-> <<>>, exp |-> 0]

\* q plus one if the fraction rem / 2^k rounds up (ties to even).
RoundHalfEven(q, rem, k) ==
    LET half == BShl(<<1>>, k - 1)
        up == BLt(half, rem) \/ (rem = half /\ BOdd(q))
    IN  IF up THEN BAdd(q, <<1>>) ELSE q

\* The float nearest to a * 2^e.
FRound(neg, a, e) ==
    IF a = <<>> THEN FZero
    ELSE IF BLen(a) <= Precision
    THEN [neg |-> neg, man |-> BShl(a, Precision - BLen(a)), exp |-> e - (Precision - BLen(a))]
    ELSE LET k == BLen(a) - Precision
             q == RoundHalfEven(BShr(a, k), BLow(a, k), k)
         IN  IF BLen(q) > Precision
             THEN [neg |-> neg, man |-> BShr(q, 1), exp |-> e + k + 1]
             ELSE [neg |-> neg, man |-> q, exp |-> e + k]

\* float(n) for an int n
FOfInt(k) == FRound(k.neg, k.man, 0)

\* x * y
FMul(x, y) == FRound(x.neg # y.neg, BMul(x.man, y.man), x.exp + y.exp)

\* x / y for y # 0: the quotient to Precision + 3 bits or more and, when a
\* remainder is left, one bit more to tell so.
FDiv(x, y) ==
    IF x.man = <<>> THEN FZero
    ELSE LET d == BDivMod(BShl(x.man, Precision + 3), y.man)
             e == x.exp - y.exp - (Precision + 3)
         IN  IF d.r = <<>> THEN FRound(x.neg # y.neg, d.q, e)
             ELSE FRound(x.neg # y.neg, BAdd(BMulSmall(d.q, 2), <<1>>), e - 1)

\* round(x): the nearest int, ties to even.
PyRound(x) ==
    IF x.exp >= 0 THEN MkInt(x.neg, BShl(x.man, x.exp))
    ELSE MkInt(x.neg, RoundHalfEven(BShr(x.man, -x.exp), BLow(x.man, -x.exp), -x.exp))

\* The float a decimal literal m * 10^e denotes (m and 10^|e| are floats).
FOfDec(d) ==
    IF d.e >= 0 THEN FOfInt(MkInt(d.m < 0, BOfInt(Abs(d.m) * Pow10(d.e))))
    ELSE FDiv(FOfInt(MkInt(d.m < 0, BOfInt(Abs(d.m)))),
              FOfInt(MkInt(FALSE, BOfDigits(<<"1">> \o Zeros(-d.e)))))

\* network.denominator of the first i networks of NetworkNames, as floats.
RECURSIVE FloatDenominators(_)
FloatDenominators(i) ==
    IF i = 0 THEN <<>>
    ELSE Append(FloatDenominators(i - 1),
                FOfDec(NETWORK_DEFINITIONS[NetworkNames[i]].denominator))

NetworkDenominators == FloatDenominators(Len(NetworkNames))

\* network.denominator
NetworkDenominator(network) ==
    NetworkDenominators[CHOOSE i \in DOMAIN NetworkNames : NetworkNames[i] = network]

PyBig(ds) == [t |-> "int", n |-> Zero, s |-> ds]
RetBig(ds) == [RetNone EXCEPT !.kind = "int", !.s = ds]

\* Lines 117 and 145 for an int value and a float denominator.
ValueInitBinary64(k, denominator, network) ==
    IF network \notin KnownNetworks THEN Raise("NetworkNotFound")
    ELSE LET den == IF denominator.man # <<>> THEN denominator ELSE FOfInt(IntOf(<<"1">>))
         IN  Ok(MkValue(FMul(FOfInt(k), den), den, network))

\* Value.from_satoshi(value, network): cls(value or 0, network.denominator, network)
from_satoshi_binary64(value, network) ==
    IF network \notin KnownNetworks THEN Raise("NetworkNotFound")
    ELSE ValueInitBinary64(IF value.t = "int" THEN IntOf(value.s) ELSE IntOf(<<"0">>),
                           NetworkDenominator(network), network)

\* round(self.value / self.network.denominator)
value_sat_binary64(self) == PyRound(FDiv(self.value, NetworkDenominator(self.network)))

FromSatoshiBinary64(values, networks) ==
    /\ call = NoCall
    /\ heap = <<>>
    /\ \E value \in values, network \in networks :
        Finish("from_satoshi", 0, <<value, PyName(network)>>,
               OfInit(from_satoshi_binary64(value, network)))

ValueSatBinary64 ==
    /\ call = NoCall
    /\ \E self \in DOMAIN heap :
        Finish("value_sat", self, <<>>, RetBig(ShowInt(value_sat_binary64(heap[self]))))

\* Counts from each of these on: none, the coins of Bitcoin in satoshi, and
\* two counts near the precision of a float.
CountsFrom == {<<"0">>,
               <<"2","1","0","0","0","0","0","0","0","0","0","0","0","0","0","0">>,
               <<"3","4","0","1","7","2","4","5","3","7","3","4","0","1","5","0">>,
               <<"9","0","0","7","1","9","9","2","5","4","7","4","0","9","9","0">>}

\* ... up to MaxOffset further.
MaxOffset == 12

Counts ==
    {PyNone} \cup
    {PyBig(ShowInt(MkInt(FALSE, BAdd(BOfDigits(from), BOfInt(k))))) :
        from \in CountsFrom, k \in 0..MaxOffset}

NextBinary64 ==
    \/ FromSatoshiBinary64(Counts, AnyNetworks)
    \/ ValueSatBinary64
    \/ Resume

SpecBinary64 == Init /\ [][NextBinary64]_vars

---------------------------------------------------------------------------
(* SpecEncode: one Value, of a smallest-unit count at and around the powers *)
(* of 256, negative or fractional, written as bytes and as hex             *)

\* Lengths in bytes are -1..MaxLength; hex lengths -1..(2 * MaxLength + 1).
MaxLength == 3

\* self.to_hex(length, byteorder)
ToHex(lengths, byteorders) ==
    /\ call = NoCall
    /\ \E self \in DOMAIN heap, length \in lengths, byteorder \in byteorders :
        /\ SatFits(heap[self])
        /\ Finish("to_hex", self, <<PyInt(length), PyName(byteorder)>>,
                  to_hex(heap[self], length, byteorder))

\* self.to_bytes(), self.to_hex(): length=8 and length=16, byteorder='little'
EncodeDefaults ==
    /\ call = NoCall
    /\ \E self \in DOMAIN heap :
        /\ SatFits(heap[self])
        /\ \/ Finish("to_bytes", self, <<>>, to_bytes(heap[self], 8, "little"))
           \/ Finish("to_hex", self, <<>>, to_hex(heap[self], 16, "little"))

EncodeCounts == {PyNone} \cup {PyInt(256^k - 1) : k \in 0..3} \cup {PyInt(256^k) : k \in 0..3}

\* Amounts in 'sat' that are negative or not whole.
EncodeValues == {PyNum(Dec(-1, 0)), PyNum(Dec(25, -1)), PyNum(Dec(35, -1)), PyNum(Dec(-25, -1))}

AnyByteOrders == ByteOrders \cup {"middle"}

NextEncode ==
    \/ FromSatoshi(EncodeCounts, SomeNetworks, 1)
    \/ Construct(EncodeValues, {PyStr(Sat)}, SomeNetworks, 1)
    \/ ValueSat
    \/ Encode((-1)..MaxLength, AnyByteOrders)
    \/ ToHex((-1)..(2 * MaxLength + 1), AnyByteOrders)
    \/ EncodeDefaults
    \/ Resume

SpecEncode == Init /\ [][NextEncode]_vars

---------------------------------------------------------------------------
(* Claims about the operators (checked under Spec) *)

Comparisons == {"__lt__", "__le__", "__eq__", "__ne__", "__ge__", "__gt__"}
Additions == {"__add__", "__iadd__"}
Subtractions == {"__sub__", "__isub__"}

\* The Value a call's first argument refers to.
Operand == heap[DecToInt(call.args[1].n)]

BetweenValues ==
    /\ call.op \in Comparisons \cup Additions \cup Subtractions
    /\ call.args[1].t = "obj"

\* C1: a comparison, an addition or a subtraction of two Values whose networks
\* differ ends in the network-mismatch error; it yields no bool and no Value,
\* whatever the amounts and the display denominators are.
C1_MismatchRaises ==
    (BetweenValues /\ heap[call.self].network # Operand.network)
        => /\ ret.kind = "error"
           /\ ret.err = (IF call.op \in Comparisons THEN CompareError ELSE CalculateError)

C1_Witness ==
    /\ BetweenValues
    /\ call.op = "__eq__"
    /\ heap[call.self].network # Operand.network
    /\ heap[call.self].denominator # Operand.denominator
    /\ ret.kind = "error"
    /\ ret.err = CompareError

\* C2: for Values of one network, a + b has the amount a.amount + b.amount and
\* a - b the amount a.amount - b.amount, a + s (a number s) the amount
\* a.amount + s, whatever the display denominators; the result carries a's
\* display denominator and network.
C2_SumInNaturalUnits ==
    LET a == heap[call.self]
        other == IF call.args[1].t = "obj" THEN Operand.value ELSE call.args[1].n
    IN  (/\ call.op \in Additions \cup Subtractions
         /\ call.args[1].t = "obj" => a.network = Operand.network)
            => /\ ret.kind = "value"
               /\ heap[ret.ref].value = (IF call.op \in Additions THEN DecAdd(a.value, other)
                                         ELSE DecSub(a.value, other))
               /\ heap[ret.ref].denominator = a.denominator
               /\ heap[ret.ref].network = a.network

\* C3: no call changes an object that exists, and a Value an operator returns
\* is a new object.
C3_ValuesNeverChange ==
    [][/\ Len(heap') >= Len(heap)
       /\ \A i \in DOMAIN heap : heap'[i] = heap[i]
       /\ ret'.kind = "value" => (ret'.ref = Len(heap) + 1 /\ Len(heap') = Len(heap) + 1)]_vars

C3_Witness ==
    /\ call.op = "__iadd__"
    /\ call.args[1].t = "obj"
    /\ ret.kind = "value"
    /\ ret.ref \notin {call.self, DecToInt(call.args[1].n)}
    /\ heap[ret.ref] # heap[call.self]

---------------------------------------------------------------------------
(* Claims about construction (checked under SpecConstruct; C4 under       *)
(* SpecBinary64)                                                           *)

NetworkArg(k) == call.args[k].s[1]

\* C4: from_satoshi(n, net), for a known network and an int n >= 0 (None
\* counts as 0), gives the amount float(n) * net.denominator with display
\* denominator net.denominator, and value_sat of that Value is n.
C4_FromSatoshiRoundTrip ==
    (call.op = "from_satoshi" /\ NetworkArg(2) \in KnownNetworks) =>
        LET n == IF call.args[1].t = "none" THEN IntOf(<<"0">>) ELSE IntOf(call.args[1].s)
            den == NetworkDenominator(NetworkArg(2))
        IN  /\ ret.kind = "value"
            /\ heap[ret.ref] = MkValue(FMul(FOfInt(n), den), den, NetworkArg(2))
            /\ value_sat_binary64(heap[ret.ref]) = n

AbsDec(a) == [m |-> Abs(a.m), e |-> a.e]

\* The state is the end of Value(heap[1].str()).
Reparsed ==
    /\ call.op = "Value"
    /\ Len(heap) >= 1
    /\ ret.ref # 1
    /\ str(heap[1], PyNone, PyNone, "code").kind = "str"
    /\ call.args[1] = PyStr(str(heap[1], PyNone, PyNone, "code").s)

\* w is v up to rounding at the decimals v.str() shows.
WithinRounding(w, v) ==
    LET decimals == StrDecimals(v, v.denominator, PyNone)
    IN  /\ w.network = v.network
        /\ w.denominator = v.denominator
        /\ DecLe(DecMul(Dec(2, 0), AbsDec(DecSub(w.value, v.value))),
                 Dec(1, v.denominator.e - decimals))

\* C5: for a Value v whose display denominator is a key of the table, the
\* constructor reads v.str() and gives a Value of v's network and display
\* denominator whose amount is v's up to rounding at the decimals shown.
C5_RenderedStringParsesBack ==
    (Reparsed /\ heap[1].denominator \in DenominatorKeys)
        => ret.kind = "value" /\ WithinRounding(heap[ret.ref], heap[1])

\* The string argument of the constructor call, split.
Items == Split(call.args[1].s)

FromString == call.op = "Value" /\ call.args[1].t = "str" /\ call.args[2] = PyNum(One)

\* C6: "x sc", for a non-empty symbol s of multiplier m and a currency code c
\* (sc not itself a currency code), gives the network of c, the display
\* denominator m and the amount x * m, also when another symbol is a proper
\* prefix of s.
C6_SymbolThenCode ==
    \A i \in DOMAIN NETWORK_DENOMINATORS, n \in KnownNetworks :
        LET s == NETWORK_DENOMINATORS[i].symb
            m == NETWORK_DENOMINATORS[i].den
            c == NETWORK_DEFINITIONS[n].currency_code
        IN  (/\ FromString
             /\ Len(Items) = 2
             /\ ParseFloat(Items[1]).ok
             /\ s # <<>>
             /\ Items[2] = s \o c
             /\ NetworksWithCode(s \o c) = <<>>)
                => /\ ret.kind = "value"
                   /\ heap[ret.ref] = MkValue(DecMul(ParseFloat(Items[1]).n, m), m, n)

\* The token is a symbol of the table followed by a known currency code.
SymbolAndCode(tok) ==
    \E symb \in DenominatorSymbols :
        StartsWith(tok, symb) /\ NetworksWithCode(Drop(tok, Len(symb))) # <<>>

\* C7: a string whose trailing token is no currency code (in any case), no
\* symbol alone and no symbol followed by a currency code is refused with
\* the unrecognised-currency error; no Value is made.
C7_UnknownTokenRaises ==
    (/\ FromString
     /\ Len(Items) > 1
     /\ NetworksWithCode(Items[2]) = <<>>
     /\ Items[2] \notin DenominatorSymbols
     /\ ~SymbolAndCode(Items[2]))
        => /\ ret.kind = "error"
           /\ ret.err = "ValueError: Currency symbol not recognised"

NumberWithUnknownSymbol ==
    /\ call.op = "Value"
    /\ call.args[1].t = "num"
    /\ call.args[2].t = "str"
    /\ call.args[2].s \notin DenominatorSymbols
    /\ NetworkArg(3) \in KnownNetworks

C9_DenominatorInTable ==
    \A i \in DOMAIN heap : heap[i].denominator \in DenominatorKeys

---------------------------------------------------------------------------
(* Claims about str('auto') (checked under SpecAuto) *)

\* The multipliers whose symbol a rendering of a Value of the network shows.
Shown(rendering, network) ==
    LET token == IF Len(Split(rendering)) > 1 THEN Split(rendering)[2] ELSE <<>>
        Label(d) == IF Contains(d.symb, Sat) /\ network = "bitcoin" THEN <<>>
                    ELSE NETWORK_DEFINITIONS[network].currency_code
    IN  {NETWORK_DENOMINATORS[i].den : i \in
            {j \in DOMAIN NETWORK_DENOMINATORS :
                token = NETWORK_DENOMINATORS[j].symb \o Label(NETWORK_DENOMINATORS[j])}}

\* C10: on one network, for positive amounts x <= y that str('auto') both
\* renders, the multiplier chosen for x is at most the one chosen for y.
C10_AutoMonotone ==
    \A i \in DOMAIN heap, j \in DOMAIN heap :
        LET x == heap[i]
            y == heap[j]
            rx == str_auto(x, PyNone, "code")
            ry == str_auto(y, PyNone, "code")
        IN  (/\ x.network = y.network
             /\ DecLt(Zero, x.value)
             /\ DecLe(x.value, y.value)
             /\ rx.kind = "str"
             /\ ry.kind = "str")
                => \A dx \in Shown(rx.s, x.network), dy \in Shown(ry.s, y.network) : DecLe(dx, dy)

C10_Witness ==
    /\ Len(heap) = 2
    /\ heap[1].network = heap[2].network
    /\ heap[1].value = Dec(999, 3)
    /\ heap[2].value = Dec(1, 6)
    /\ call.op = "str_auto"
    /\ call.self = 2
    /\ ret.kind = "str"
    /\ Shown(ret.s, heap[2].network) = {Dec(1, 6)}
    /\ Shown(str_auto(heap[1], PyNone, "code").s, heap[1].network) = {Dec(1, 3)}

---------------------------------------------------------------------------
(* Claims about to_bytes and to_hex (checked under SpecEncode) *)

\* The length and the byte order of the call; to_bytes() and to_hex() stand
\* for 8 bytes and 16 characters, little-endian.
EncodeLength ==
    IF call.args = <<>> THEN (IF call.op = "to_hex" THEN 16 ELSE 8)
    ELSE DecToInt(call.args[1].n)
EncodeOrder == IF call.args = <<>> THEN "little" ELSE call.args[2].s[1]

\* 0 <= n < 256^length, for the ints of the model (all below 256^4).
FitsIn(n, length) == n >= 0 /\ (length >= 4 \/ n < 256^length)

\* The int a byte string stands for, least significant byte first.
RECURSIVE LittleValue(_)
LittleValue(bs) == IF bs = <<>> THEN 0 ELSE Head(bs) + 256 * LittleValue(Tail(bs))

\* r is n in exactly length bytes of the order given (zero-padded) if n
\* fits, and the overflow error if not.
EncodesOrOverflows(r, n, length, byteorder) ==
    IF FitsIn(n, length)
    THEN /\ r.kind = "bytes"
         /\ Len(r.bytes) = length
         /\ \A i \in DOMAIN r.bytes : r.bytes[i] \in 0..255
         /\ LittleValue([i \in DOMAIN r.bytes |->
                            IF byteorder = "little" THEN r.bytes[i]
                            ELSE r.bytes[Len(r.bytes) + 1 - i]]) = n
    ELSE r.kind = "error" /\ r.err = "OverflowError"

\* Value of a lower-case hex digit; -1 for any other character.
HexVal(c) ==
    CASE IsDigit(c) -> DigitVal(c)
      [] c = "a" -> 10 [] c = "b" -> 11 [] c = "c" -> 12
      [] c = "d" -> 13 [] c = "e" -> 14 [] c = "f" -> 15
      [] OTHER -> -1

\* s is the lower-case hex of the bytes bs.
HexOf(s, bs) ==
    /\ Len(s) = 2 * Len(bs)
    /\ \A i \in DOMAIN s : HexVal(s[i]) >= 0
    /\ \A i \in DOMAIN bs : 16 * HexVal(s[2 * i - 1]) + HexVal(s[2 * i]) = bs[i]

\* C11: to_bytes(length, byteorder), for a length >= 0 and an order 'little'
\* or 'big', gives exactly length bytes that read as value_sat in that order
\* when 0 <= value_sat < 256^length, and the overflow error (no bytes)
\* otherwise; to_hex(length, byteorder) gives the lower-case hex of
\* to_bytes(length // 2, byteorder), or its error; the defaults are 8 bytes
\* and 16 characters.
C11_BytesAndHexOfValueSat ==
    (/\ call.op \in {"to_bytes", "to_hex"}
     /\ EncodeOrder \in {"little", "big"}
     /\ (IF call.op = "to_hex" THEN EncodeLength \div 2 ELSE EncodeLength) >= 0)
        => LET self == heap[call.self]
               n == value_sat(self)
           IN  IF call.op = "to_bytes"
               THEN EncodesOrOverflows(ret, n, EncodeLength, EncodeOrder)
               ELSE LET b == to_bytes(self, EncodeLength \div 2, EncodeOrder)
                    IN  /\ EncodesOrOverflows(b, n, EncodeLength \div 2, EncodeOrder)
                        /\ IF b.kind = "bytes"
                           THEN ret.kind = "str" /\ HexOf(ret.s, b.bytes)
                           ELSE ret = b

C11_Witness ==
    /\ call.op = "to_hex"
    /\ EncodeLength = 5
    /\ EncodeOrder = "big"
    /\ value_sat(heap[call.self]) = 256
    /\ ret.kind = "str"
    /\ ret.s = <<"0", "1", "0", "0">>

---------------------------------------------------------------------------
(* Claims about str('auto') when no rule applies (checked under SpecAuto) *)

\* None of the rules a, b, c holds for the amount of self.
NoRuleApplies(self) ==
    /\ ~(DecLe(Dec(1, -3), self.value) /\ DecLt(self.value, Dec(1, 3)))
    /\ ~InRange(self.value, NETWORK_DEFINITIONS[self.network].denominator)
    /\ \A i \in DOMAIN NETWORK_DENOMINATORS :
           NETWORK_DENOMINATORS[i].symb \notin AutoExcluded
               => ~InRange(self.value, NETWORK_DENOMINATORS[i].den)

\* The last multiplier the scan of the table tries.
LastCandidate ==
    LET tried == {i \in DOMAIN NETWORK_DENOMINATORS :
                     NETWORK_DENOMINATORS[i].symb \notin AutoExcluded}
    IN  NETWORK_DENOMINATORS[CHOOSE i \in tried : \A j \in tried : j <= i].den

\* C12: str('auto') on a Value for which no rule holds (zero, negative, or
\* outside every range of the table) renders the amount with the last
\* multiplier the scan tried.
C12_AutoKeepsLastCandidate ==
    (call.op = "str_auto" /\ NoRuleApplies(heap[call.self]))
        => /\ ret.kind = "str"
           /\ ret = str(heap[call.self], PyNum(LastCandidate), call.args[1], call.args[2].s[1])

=============================================================================
